---- MODULE Spec2Model ----
(***************************************************************************)
(* Model of the data core of MultiAgent-Quant-Research: the process-wide   *)
(* DATA_CACHE, the cleaning engine clean_dataframe, the statistics entry   *)
(* point and the two mediators _pass_data_to_cleaner and _analyze_by_id.   *)
(*                                                                         *)
(* Time.  An instant is an integer number of half ticks.  Every timestamp  *)
(* that enters from outside is a whole tick (an even number), so that the  *)
(* median of two consecutive deltas, (a+b)/2, is again an integer.         *)
(*                                                                         *)
(* Numbers.  A cell of a frame is a record [kind, v]: a finite number, NaN *)
(* or +/-infinity.  Input prices are multiples of Scale, the least common  *)
(* multiple of every possible time span, so that the time-weighted linear  *)
(* interpolation of the code is computed exactly in integers.              *)
(***************************************************************************)
EXTENDS Integers, Sequences, FiniteSets, TLC

VARIABLES
    DATA_CACHE,   \* agent_utils.DATA_CACHE: reference id -> list of row dicts
    ret,          \* the last mediator / ingestion call and what it returned
    df,           \* clean_dataframe's argument df['data'] (pure-function runs)
    freq,         \* clean_dataframe's argument freq
    repair_ohlc,  \* clean_dataframe's argument repair_ohlc
    result,       \* what clean_dataframe(df, freq, repair_ohlc) returned
    again,        \* what clean_dataframe returned on result's own rows
    time_1,       \* return_distribution_analysis's argument time_1
    time_2,       \* return_distribution_analysis's argument time_2
    stats,        \* what return_distribution_analysis(df, time_1, time_2) returned
    quicksort,    \* the row order sort_index() produced in the last cleaning run
    coin,         \* the last coins_info call and what it returned
    tool_confirmation,    \* tool_context.tool_confirmation for the next call
    confirmation_request  \* what request_confirmation last asked, while pending

vars == <<DATA_CACHE, ret, df, freq, repair_ohlc, result, again, time_1, time_2, stats,
          quicksort, coin, tool_confirmation, confirmation_request>>

----------------------------------------------------------------------------
(* Bounds of the model *)

\* timestamps offered to the model are the whole ticks 0 .. MaxTick
MaxTick == 3
\* longest dataset with freely chosen timestamps
MaxRows == 4
\* longest dataset with freely chosen cell values
MaxValRows == 3

MaxT == 2 * MaxTick

RECURSIVE Gcd(_, _)
Gcd(a, b) == IF b = 0 THEN a ELSE Gcd(b, a % b)

RECURSIVE LcmUpTo(_)
LcmUpTo(n) == IF n <= 1 THEN 1 ELSE LET l == LcmUpTo(n - 1) IN (l * n) \div Gcd(l, n)

Scale == LcmUpTo(MaxT)

----------------------------------------------------------------------------
(* Cells: numpy floats *)

Num(n) == [kind |-> "num", v |-> n]
NaN    == [kind |-> "nan", v |-> 0]
PosInf == [kind |-> "inf", v |-> 1]
NegInf == [kind |-> "inf", v |-> -1]

IsNum(x) == x.kind = "num"
\* pandas isna(): NaN only, an infinity is not "missing"
isna(x) == x.kind = "nan"
\* numpy isinf()
isinf(x) == x.kind = "inf"
\* x <= 0 as numpy evaluates it: False for NaN, True for -inf
LeZero(x) == (IsNum(x) /\ x.v <= 0) \/ x = NegInf
\* x < 0 as numpy evaluates it
LtZero(x) == (IsNum(x) /\ x.v < 0) \/ x = NegInf
\* a > b on floats, NaN compares False; infinities ordered as usual
Key(x) == IF IsNum(x) THEN <<0, x.v>> ELSE <<x.v, 0>>
Gt(a, b) ==
    /\ ~isna(a) /\ ~isna(b)
    /\ \/ Key(a)[1] > Key(b)[1]
       \/ Key(a)[1] = Key(b)[1] /\ Key(a)[2] > Key(b)[2]
Lt(a, b) == Gt(b, a)
Le(a, b) == ~isna(a) /\ ~isna(b) /\ ~Gt(a, b)
fmin(a, b) == IF Lt(b, a) THEN b ELSE a
fmax(a, b) == IF Gt(b, a) THEN b ELSE a

----------------------------------------------------------------------------
(* Timestamps as they appear in a row dict *)

\* a pandas Timestamp object
Ts(t) == [kind |-> "ts", t |-> t]
\* a date string that pd.to_datetime parses to instant t
Str(t) == [kind |-> "str", t |-> t]
\* a string that pd.to_datetime rejects
Junk == [kind |-> "junk", t |-> 0]

\* pd.to_datetime on one label; "error" stands for the exception it raises
to_datetime(x) == IF x.kind = "junk" THEN [kind |-> "error", t |-> 0] ELSE Ts(x.t)

----------------------------------------------------------------------------
(* Frequencies: pandas offset strings over two units, the tick "T" and the *)
(* half tick "H" (as hours and minutes)                                    *)

Auto == [n |-> 0, unit |-> "auto"]
UnitLen(u) == IF u = "T" THEN 2 ELSE 1
\* pd.tseries.frequencies.to_offset(delta).freqstr: the largest unit that
\* divides the delta
freqstr(delta) ==
    IF delta % 2 = 0 THEN [n |-> delta \div 2, unit |-> "T"]
    ELSE [n |-> delta, unit |-> "H"]
\* the period that pd.date_range reads back from an offset string
period(f) == f.n * UnitLen(f.unit)

----------------------------------------------------------------------------
(* Small sequence helpers *)

Range(s) == {s[i] : i \in DOMAIN s}
Min(S) == CHOOSE x \in S : \A y \in S : x <= y
Max(S) == CHOOSE x \in S : \A y \in S : x >= y
\* the k-th smallest element of a finite set of integers
Kth(S, k) == CHOOSE x \in S : Cardinality({y \in S : y < x}) = k - 1
\* the subsequence of s at the positions K, in order
Pick(s, K) == [k \in 1..Cardinality(K) |-> s[Kth(K, k)]]
\* a sequence of integers in ascending order
SortInts(s) ==
    LET n == Len(s)
        rank(i) == Cardinality({j \in 1..n : s[j] < s[i] \/ (s[j] = s[i] /\ j < i)}) + 1
    IN [k \in 1..n |-> s[CHOOSE i \in 1..n : rank(i) = k]]

----------------------------------------------------------------------------
(* clean_dataframe: results and report entries *)

\* one line of the report; n and col carry the numbers the message formats
Entry(tag, n, col) == [tag |-> tag, n |-> n, col |-> col]

Success(rows, report) == [status |-> "success", clean_df |-> rows, report |-> report]
Error(msg) == [status |-> "error", error_message |-> msg]
\* the call did not return: the named exception left it
Raised(exc) == [status |-> "raised", exception |-> exc]
NoResult == [status |-> "none"]

\* DATA_CACHE = {} at import time
EmptyCache == [k \in {} |-> <<>>]
\* a finished call: the operation, its reference id, what it returned (or
\* raised) and the cache it found
Call(op, rid, out, before) == [op |-> op, id |-> rid, out |-> out, before |-> before]
NoCall == Call("none", "", NoResult, EmptyCache)

\* tool_context.tool_confirmation: None, or the user's answer
NoConfirmation == [present |-> FALSE, confirmed |-> FALSE]
Confirmation(confirmed) == [present |-> TRUE, confirmed |-> confirmed]
\* no request_confirmation is pending
NoRequest == [pending |-> FALSE, symbol |-> "", reasons |-> <<>>]
\* no call of coins_info yet
NoCoinCall ==
    [op |-> "none", symbol |-> "", listing |-> <<>>, found |-> NoConfirmation,
     out |-> NoResult, requested |-> FALSE]

\* the default window lengths of return_distribution_analysis
DefaultTime1 == 60
DefaultTime2 == 252

OhlcNames == {"open", "high", "low", "close"}
\* the working state of clean_dataframe: the frame `data` (index name, index
\* labels, one record of cells per row), the report and how far it got
Frame(name, index, rows, report) ==
    [status |-> "ok", name |-> name, index |-> index, rows |-> rows, report |-> report]
Stopped(res) == [status |-> "stopped", res |-> res]
Running(st) == st.status = "ok"

\* pd.DataFrame(df['data']).set_index('datetime'), and the emptiness test
Validate(records) ==
    LET columns == UNION {DOMAIN records[i] : i \in DOMAIN records}
        cells == columns \ {"datetime"}
    IN IF "datetime" \notin columns THEN Stopped(Raised("KeyError"))
       ELSE IF Len(records) = 0 \/ cells = {} THEN Stopped(Error("DataFrame is empty."))
       ELSE Frame("datetime",
                  [i \in DOMAIN records |-> records[i]["datetime"]],
                  [i \in DOMAIN records |->
                      [c \in cells |-> IF c \in DOMAIN records[i] THEN records[i][c] ELSE NaN]],
                  <<>>)

\* "Ensure DatetimeIndex": afterwards the index holds instants
EnsureDatetimeIndex(st) ==
    IF ~Running(st) THEN st
    ELSE IF \A i \in DOMAIN st.index : st.index[i].kind = "ts"
         THEN [st EXCEPT !.index = [i \in DOMAIN st.index |-> st.index[i].t]]
    ELSE IF \E i \in DOMAIN st.index : to_datetime(st.index[i]).kind = "error"
         THEN Stopped(Error("Index cannot be converted to datetime."))
    ELSE [st EXCEPT !.index = [i \in DOMAIN st.index |-> to_datetime(st.index[i]).t],
                    !.report = Append(@, Entry("Converted index to DatetimeIndex.", 0, ""))]

is_monotonic_increasing(index) ==
    \A i \in 1..(Len(index) - 1) : index[i] <= index[i + 1]

\* the positions of index in ascending label order, equal labels in input order
argsort(index) ==
    LET n == Len(index)
        rank(i) == Cardinality({j \in 1..n :
                       index[j] < index[i] \/ (index[j] = index[i] /\ j < i)}) + 1
    IN [k \in 1..n |-> CHOOSE i \in 1..n : rank(i) = k]

\* every order of the positions in S
RECURSIVE Orders(_)
Orders(S) ==
    IF S = {} THEN {<<>>}
    ELSE UNION {{<<x>> \o t : t \in Orders(S \ {x})} : x \in S}
\* the positions of index under the labels L: the labels ascend, the
\* positions of one label in any order
RECURSIVE AscendingOver(_, _)
AscendingOver(index, L) ==
    IF L = {} THEN {<<>>}
    ELSE {a \o b : a \in Orders({i \in DOMAIN index : index[i] = Min(L)}),
                   b \in AscendingOver(index, L \ {Min(L)})}
\* what argsort(kind="quicksort"), the default of sort_index(), may return:
\* the labels ascend, equal labels in any order (quicksort is not stable)
argsorts(index) == AscendingOver(index, Range(index))

\* the sort step left out
SortIndex_skipped(st, p) == st

\* "Sort index", p the order quicksort returned
SortIndex(st, p) ==
    IF ~Running(st) \/ is_monotonic_increasing(st.index) THEN st
    ELSE [st EXCEPT !.index = [k \in DOMAIN p |-> st.index[p[k]]],
                    !.rows = [k \in DOMAIN p |-> st.rows[p[k]]],
                    !.report = Append(@, Entry("Sorted datetime index.", 0, ""))]

\* Index.duplicated(keep="first"): the positions that repeat an earlier label
duplicated(index) == {i \in DOMAIN index : \E j \in 1..(i - 1) : index[j] = index[i]}

\* "Remove duplicate timestamps"
RemoveDuplicates(st) ==
    IF ~Running(st) THEN st
    ELSE LET dupes == duplicated(st.index)
             keep == DOMAIN st.index \ dupes
         IN IF Cardinality(dupes) > 0
            THEN [st EXCEPT !.index = Pick(st.index, keep),
                            !.rows = Pick(st.rows, keep),
                            !.report = Append(@, Entry("Removed duplicate timestamps.",
                                                       Cardinality(dupes), ""))]
            ELSE st

\* index.to_series().diff().median(): 0 stands for NaT (no delta at all)
median_diff(index) ==
    LET n == Len(index) - 1
        d == SortInts([i \in 1..n |-> index[i + 1] - index[i]])
    IN IF n < 1 THEN 0
       ELSE IF n % 2 = 1 THEN d[(n + 1) \div 2]
       ELSE (d[n \div 2] + d[n \div 2 + 1]) \div 2

\* "Infer frequency if needed": the frequency the rest of the run uses, or
\* the error return
InferFrequency(st, f) ==
    IF ~Running(st) THEN [st |-> st, freq |-> f]
    ELSE IF f = Auto
    THEN LET inferred == median_diff(st.index)
         IN IF inferred = 0
            THEN [st |-> Stopped(Error("Cannot infer frequency.")), freq |-> f]
            ELSE [st |-> [st EXCEPT !.report = Append(@,
                              Entry("Auto-detected data frequency.", inferred, ""))],
                  freq |-> freqstr(inferred)]
    ELSE [st |-> st, freq |-> f]

\* pd.date_range(start, end, freq): start, start+p, ... while <= end
date_range(start, end, f) ==
    [k \in 1..((end - start) \div period(f) + 1) |-> start + (k - 1) * period(f)]

\* DataFrame.reindex(full_index): the frame takes the new index object, whose
\* name is None; a label absent from the old index gets a row of NaN
reindex(st, full_index) ==
    LET columns == DOMAIN st.rows[1]
        at(g) == IF \E i \in DOMAIN st.index : st.index[i] = g
                 THEN st.rows[CHOOSE i \in DOMAIN st.index : st.index[i] = g]
                 ELSE [c \in columns |-> NaN]
    IN [st EXCEPT !.name = "None",
                  !.index = full_index,
                  !.rows = [k \in DOMAIN full_index |-> at(full_index[k])]]

\* "Detect missing timestamps"; inf is the frame and the frequency in force
Reindexed(st, full_index, missing) ==
    IF Cardinality(missing) > 0
    THEN [reindex(st, full_index) EXCEPT !.report = st.report \o
            << Entry("Found missing timestamps.", Cardinality(missing), ""),
               Entry("Reindexed DataFrame to a complete timeline.", 0, "") >>]
    ELSE st
FullIndex(inf) == date_range(Min(Range(inf.st.index)), Max(Range(inf.st.index)), inf.freq)
ReindexMissing(inf) ==
    IF ~Running(inf.st) THEN inf.st
    ELSE Reindexed(inf.st, FullIndex(inf), Range(FullIndex(inf)) \ Range(inf.st.index))

\* every cell of the frame, as (row, column) pairs
Cells(st) == (DOMAIN st.rows) \X (DOMAIN st.rows[1])

\* "Handle infinite values"
ReplaceInfinite(st) ==
    IF ~Running(st) THEN st
    ELSE IF \E p \in Cells(st) : isinf(st.rows[p[1]][p[2]])
    THEN [st EXCEPT
            !.rows = [i \in DOMAIN st.rows |->
                        [c \in DOMAIN st.rows[i] |->
                            IF isinf(st.rows[i][c]) THEN NaN ELSE st.rows[i][c]]],
            !.report = Append(@, Entry("Replaced infinite values with NaN.", 0, ""))]
    ELSE st

\* one round of the loop over ohlc_cols
ScrubColumn(st, col) ==
    IF col \notin DOMAIN st.rows[1]
         \/ Cardinality({i \in DOMAIN st.rows : LeZero(st.rows[i][col])}) = 0
    THEN st
    ELSE [st EXCEPT
            !.rows = [i \in DOMAIN st.rows |->
                        [c \in DOMAIN st.rows[i] |->
                            IF c = col /\ LeZero(st.rows[i][c]) THEN NaN ELSE st.rows[i][c]]],
            !.report = Append(@, Entry("Column had zero/negative values -> set to NaN.",
                          Cardinality({i \in DOMAIN st.rows : LeZero(st.rows[i][col])}),
                          col))]

\* "Detect & remove negative/zero OHLC", the columns in frame order
ScrubNonPositive(st) ==
    IF ~Running(st) THEN st
    ELSE ScrubColumn(ScrubColumn(ScrubColumn(ScrubColumn(st, "open"), "high"), "low"), "close")

\* the repair loop body without the low/high swap: open and close are only
\* clamped into the bounds as found
repair_row_no_swap(row) ==
    LET open1 == IF Gt(row["open"], row["high"]) THEN row["high"] ELSE row["open"]
        close1 == IF Gt(row["close"], row["high"]) THEN row["high"] ELSE row["close"]
    IN [broken |-> \/ Gt(row["open"], row["high"]) \/ Gt(row["close"], row["high"])
                   \/ Lt(open1, row["low"]) \/ Lt(close1, row["low"]),
        row |-> [c \in DOMAIN row |->
                    CASE c = "open" -> IF Lt(open1, row["low"]) THEN row["low"] ELSE open1
                      [] c = "close" -> IF Lt(close1, row["low"]) THEN row["low"] ELSE close1
                      [] OTHER -> row[c]]]

\* the body of the repair loop for one row with no NaN among its four OHLC
\* cells: the values written back and whether anything was "broken"
repair_row(row) ==
    LET swap == Gt(row["low"], row["high"])
        low == IF swap THEN fmin(row["low"], row["high"]) ELSE row["low"]
        high == IF swap THEN fmax(row["low"], row["high"]) ELSE row["high"]
        open1 == IF Gt(row["open"], high) THEN high ELSE row["open"]
        close1 == IF Gt(row["close"], high) THEN high ELSE row["close"]
        open2 == IF Lt(open1, low) THEN low ELSE open1
        close2 == IF Lt(close1, low) THEN low ELSE close1
    IN [broken |-> \/ swap
                   \/ Gt(row["open"], high) \/ Gt(row["close"], high)
                   \/ Lt(open1, low) \/ Lt(close1, low),
        row |-> [c \in DOMAIN row |->
                    CASE c = "low" -> low
                      [] c = "high" -> high
                      [] c = "open" -> open2
                      [] c = "close" -> close2
                      [] OTHER -> row[c]]]

\* the skip test of the repair loop left out
ohlc_has_nan_ignored(row) == FALSE

\* row.isna().any() over the OHLC columns
ohlc_has_nan(row) == \E c \in OhlcNames \cap DOMAIN row : isna(row[c])

\* "Fix bad OHLC relationships (optional)": rows in index order, one report
\* line per repaired row
RECURSIVE RepairFrom(_, _)
RepairFrom(st, i) ==
    IF i > Len(st.rows) THEN st
    ELSE IF ohlc_has_nan(st.rows[i]) THEN RepairFrom(st, i + 1)
    ELSE LET r == repair_row(st.rows[i])
         IN IF r.broken
            THEN RepairFrom([st EXCEPT !.rows[i] = r.row,
                                       !.report = Append(@,
                                           Entry("Repaired inconsistent OHLC.", st.index[i], ""))],
                            i + 1)
            ELSE RepairFrom(st, i + 1)

RepairOhlc(st, repair) ==
    IF ~Running(st) \/ ~repair THEN st ELSE RepairFrom(st, 1)

\* "Clean volume column"
CleanVolume(st) ==
    IF ~Running(st) \/ "volume" \notin DOMAIN st.rows[1] THEN st
    ELSE IF Cardinality({i \in DOMAIN st.rows : LtZero(st.rows[i]["volume"])}) > 0
    THEN [st EXCEPT
            !.rows = [i \in DOMAIN st.rows |->
                        [c \in DOMAIN st.rows[i] |->
                            IF c = "volume" /\ LtZero(st.rows[i][c]) THEN NaN
                            ELSE st.rows[i][c]]],
            !.report = Append(@, Entry("Volume had negative values -> replaced with NaN.",
                          Cardinality({i \in DOMAIN st.rows : LtZero(st.rows[i]["volume"])}),
                          ""))]
    ELSE st

\* Series.interpolate(method="time") on one column: a NaN between two valid
\* cells moves onto the line through them (x = the index), a NaN after the
\* last valid cell takes its value, a NaN before the first valid cell stays
interpolate_time(index, col) ==
    [i \in DOMAIN col |->
        IF ~isna(col[i]) THEN col[i]
        ELSE LET before == {j \in 1..(i - 1) : ~isna(col[j])}
                 after == {j \in (i + 1)..Len(col) : ~isna(col[j])}
             IN IF before = {} THEN NaN
                ELSE IF after = {} THEN col[Max(before)]
                ELSE LET p == Max(before)
                         n == Min(after)
                     IN Num(col[p].v + ((col[n].v - col[p].v) * (index[i] - index[p]))
                                          \div (index[n] - index[p]))]

\* fillna(method="ffill") / fillna(method="bfill") on one column
ffill(col) ==
    [i \in DOMAIN col |->
        IF ~isna(col[i]) THEN col[i]
        ELSE LET before == {j \in 1..(i - 1) : ~isna(col[j])}
             IN IF before = {} THEN NaN ELSE col[Max(before)]]
bfill(col) ==
    [i \in DOMAIN col |->
        IF ~isna(col[i]) THEN col[i]
        ELSE LET after == {j \in (i + 1)..Len(col) : ~isna(col[j])}
             IN IF after = {} THEN NaN ELSE col[Min(after)]]

Column(st, c) == [i \in DOMAIN st.rows |-> st.rows[i][c]]

\* one column after interpolate, ffill and bfill
Filled(st, c) == bfill(ffill(interpolate_time(st.index, Column(st, c))))

\* "Interpolate missing values"
Interpolate(st) ==
    IF ~Running(st) THEN st
    ELSE IF \E p \in Cells(st) : isna(st.rows[p[1]][p[2]])
    THEN [st EXCEPT
            !.rows = [i \in DOMAIN st.rows |->
                        [c \in DOMAIN st.rows[i] |-> Filled(st, c)[i]]],
            !.report = Append(@,
                Entry("Interpolated remaining missing values (time, ffill, bfill).", 0, ""))]
    ELSE st

\* data.reset_index().to_dict(orient="records"): the index becomes a column
\* named after the index, or "index" when the index has no name
to_records(st) ==
    LET key == IF st.name = "None" THEN "index" ELSE st.name
    IN [i \in DOMAIN st.rows |->
           [c \in DOMAIN st.rows[i] \cup {key} |->
               IF c = key THEN Ts(st.index[i]) ELSE st.rows[i][c]]]

\* the frame as the OHLC repair loop finds it: validated, converted, sorted,
\* de-duplicated, reindexed and scrubbed
before_repair(records, f, p) ==
    ScrubNonPositive(ReplaceInfinite(ReindexMissing(InferFrequency(
        RemoveDuplicates(SortIndex(EnsureDatetimeIndex(Validate(records)), p)), f))))

\* the return statement, or the early return that stopped the run
Return(st) == IF Running(st) THEN Success(to_records(st), st.report) ELSE st.res

\* the orders sort_index() may give the rows of a dataset that reaches the
\* sort step; the order as given for one that does not
SortOutcomes(records) ==
    IF /\ \A i \in DOMAIN records :
             "datetime" \in DOMAIN records[i] /\ records[i]["datetime"].kind # "junk"
       /\ ~is_monotonic_increasing([i \in DOMAIN records |-> records[i]["datetime"].t])
    THEN argsorts([i \in DOMAIN records |-> records[i]["datetime"].t])
    ELSE {[i \in DOMAIN records |-> i]}

\* agent_utils.clean_dataframe, p the order its sort_index() call returns
clean_dataframe(records, f, repair, p) ==
    Return(Interpolate(CleanVolume(RepairOhlc(before_repair(records, f, p), repair))))

----------------------------------------------------------------------------
(* The datasets offered to clean_dataframe *)

\* a row dict as EODHD delivers it, prices in units of Scale
Row(label, o, h, l, c, v) ==
    [datetime |-> label, open |-> o, high |-> h, low |-> l, close |-> c, volume |-> v]
Px(n) == Num(n * Scale)
Flat(label, n) == Row(label, Px(n), Px(n), Px(n), Px(n), Px(n))

\* every sequence over S of length 0 .. n
SeqsUpTo(S, n) == UNION {[1..k -> S] : k \in 0..n}

Ticks == {2 * k : k \in 0..MaxTick}

\* Index-shaped datasets: any order and multiplicity of timestamps (Timestamp
\* objects, or date strings among which some do not parse); the row at
\* position i is flat at level i, so rows are told apart by their values
IndexShaped ==
    { [i \in DOMAIN labels |-> Flat(labels[i], i)] :
        labels \in SeqsUpTo({Ts(t) : t \in Ticks}, MaxRows)
                   \cup SeqsUpTo({Str(t) : t \in Ticks} \cup {Junk}, MaxRows) }

\* the cells of one row: consistent, inverted (low > high, open and close out
\* of range), open above high, non-positive low, infinite high, missing open,
\* missing volume, negative volume
RowShapes ==
    { <<Px(2), Px(2), Px(2), Px(2), Px(1)>>,
      <<Px(2), Px(4), Px(1), Px(3), Px(0)>>,
      <<Px(12), Px(5), Px(10), Px(3), Px(1)>>,
      <<Px(5), Px(4), Px(2), Px(3), Px(1)>>,
      <<Px(1), Px(1), Px(0), Px(1), Px(1)>>,
      <<Px(1), Px(1), Px(-1), Px(1), Px(1)>>,
      <<Px(2), PosInf, Px(2), Px(2), Px(1)>>,
      <<NaN, Px(2), Px(2), Px(2), Px(1)>>,
      <<Px(2), Px(2), Px(2), Px(2), NaN>>,
      <<Px(2), Px(2), Px(2), Px(2), Px(-1)>> }

\* Value-shaped datasets: date strings or Timestamps on an even grid of stride
\* 1 or 2 ticks from tick 0, any cells
ValueRows(shapes, stride, objects) ==
    [i \in DOMAIN shapes |->
        LET x == shapes[i]
            t == 2 * stride * (i - 1)
        IN Row(IF objects THEN Ts(t) ELSE Str(t), x[1], x[2], x[3], x[4], x[5])]
ValueShaped ==
    { ValueRows(p[1], p[2], p[3]) :
        p \in { q \in SeqsUpTo(RowShapes, MaxValRows) \X (1..2) \X BOOLEAN :
                   Len(q[1]) >= 1 /\ q[2] * (Len(q[1]) - 1) <= MaxTick } }

\* rows without a volume column, and rows whose timestamp sits under another
\* key than 'datetime'
Without(row, key) == [c \in DOMAIN row \ {key} |-> row[c]]
Renamed(row, old, new) ==
    [c \in (DOMAIN row \ {old}) \cup {new} |-> IF c = new THEN row[old] ELSE row[c]]
OtherShaped ==
    { [i \in 1..n |-> Without(Flat(Str(2 * (i - 1)), i), "volume")] : n \in 1..2 }
    \cup { [i \in 1..n |-> Renamed(Flat(Ts(2 * (i - 1)), i), "datetime", "index")] : n \in 1..2 }

\* a row with a missing open and low > high, alone and beside the inverted
\* row of RowShapes
RepairShaped ==
    { <<Row(Ts(0), NaN, Px(1), Px(3), Px(2), Px(1))>>,
      <<Row(Ts(0), NaN, Px(1), Px(3), Px(2), Px(1)),
        Row(Ts(2), Px(12), Px(5), Px(10), Px(3), Px(1))>>,
      <<Row(Ts(0), Px(12), Px(5), Px(10), Px(3), Px(1)),
        Row(Ts(2), NaN, Px(1), Px(3), Px(2), Px(1))>> }

Datasets == IndexShaped \cup ValueShaped \cup OtherShaped \cup RepairShaped

\* the freq argument: the default, or an explicit period of 1 or 2 ticks
Freqs == {Auto, [n |-> 1, unit |-> "T"], [n |-> 2, unit |-> "T"]}

----------------------------------------------------------------------------
(* Runs of the pure function clean_dataframe *)

CleanInit ==
    /\ DATA_CACHE = EmptyCache
    /\ ret = NoCall
    /\ df \in Datasets
    /\ freq \in Freqs
    /\ repair_ohlc \in BOOLEAN
    /\ result = NoResult
    /\ again = NoResult
    /\ time_1 = DefaultTime1
    /\ time_2 = DefaultTime2
    /\ stats = NoResult
    /\ quicksort = <<>>
    /\ coin = NoCoinCall
    /\ tool_confirmation = NoConfirmation
    /\ confirmation_request = NoRequest

\* result = clean_dataframe({"data": df}, freq, repair_ohlc)
Clean ==
    /\ result = NoResult
    /\ \E p \in SortOutcomes(df) :
          /\ result' = clean_dataframe(df, freq, repair_ohlc, p)
          /\ quicksort' = p
    /\ UNCHANGED <<DATA_CACHE, ret, df, freq, repair_ohlc, again, time_1, time_2, stats,
                   coin, tool_confirmation, confirmation_request>>

\* again = clean_dataframe({"data": result["clean_df"]}, freq, repair_ohlc)
CleanAgain ==
    /\ result.status = "success"
    /\ again = NoResult
    /\ \E p \in SortOutcomes(result.clean_df) :
          again' = clean_dataframe(result.clean_df, freq, repair_ohlc, p)
    /\ UNCHANGED <<DATA_CACHE, ret, df, freq, repair_ohlc, result, time_1, time_2, stats, quicksort,
                   coin, tool_confirmation, confirmation_request>>

CleanNext == Clean \/ CleanAgain

CleanSpec == CleanInit /\ [][CleanNext]_vars

----------------------------------------------------------------------------
(* The statistics engine, as far as the mediators depend on it *)

\* np.log(close / close.shift(1)) is NaN (and the row is dropped by dropna)
\* when either price is NaN, when the quotient is 0/0 or inf/inf, or when the
\* quotient is negative
Sign(x) == IF IsNum(x) THEN (IF x.v > 0 THEN 1 ELSE IF x.v < 0 THEN -1 ELSE 0) ELSE x.v
log_return_is_nan(prev, cur) ==
    \/ isna(prev) \/ isna(cur)
    \/ (IsNum(prev) /\ prev.v = 0 /\ IsNum(cur) /\ cur.v = 0)
    \/ (isinf(prev) /\ isinf(cur))
    \/ Sign(prev) * Sign(cur) < 0

\* the positions of the rows that survive dataframe.dropna(): each carries one
\* return observation and its own close
return_rows(records) ==
    {i \in 2..Len(records) :
        ~log_return_is_nan(records[i - 1]["close"], records[i]["close"])}

\* Series.tail(n) over the surviving positions
tail(S, n) == {i \in S : Cardinality({j \in S : j > i}) < n}

\* a fraction in lowest terms
Fraction(num, den) == [num |-> num \div Gcd(num, den), den |-> den \div Gcd(num, den)]

\* prices.cummax() at position t
cummax(prices, t) == Max({prices[s].v : s \in 1..t})

\* calculate_max_drawdown(prices) = 1 - (prices / prices.cummax()).min() on a
\* series of positive prices, as an exact fraction; NaN on an empty series
calculate_max_drawdown(prices) ==
    IF Len(prices) = 0 THEN NaN
    ELSE LET t == CHOOSE t \in DOMAIN prices : \A s \in DOMAIN prices :
                      prices[t].v * cummax(prices, s) <= prices[s].v * cummax(prices, t)
         IN Fraction(cummax(prices, t) - prices[t].v, cummax(prices, t))

\* get_stats(window_df, prices): the return observations the window statistics
\* are computed from (as the rows that carry them), the price series handed to
\* calculate_max_drawdown and its result; len(window_df) = 0 divides by zero
get_stats(window_df, prices) ==
    IF window_df = {} THEN Raised("ZeroDivisionError")
    ELSE [status |-> "success", returns |-> window_df, prices |-> prices,
          max_drawdown |-> calculate_max_drawdown(prices)]

\* lines 719-731: both windows, then the result dict
both_windows(stats_short, stats_long) ==
    IF stats_short.status = "raised" THEN stats_short
    ELSE IF stats_long.status = "raised" THEN stats_long
    ELSE [status |-> "success", short_term_stats |-> stats_short,
          long_term_stats |-> stats_long]

\* dataframe['close'] at the rows K, in order
Closes(records, K) == Pick([i \in DOMAIN records |-> records[i]["close"]], K)

\* dataframe['returns'].tail(n) and dataframe['close'].tail(n), per window
windows(records, kept, t1, t2) ==
    both_windows(get_stats(tail(kept, t1), Closes(records, tail(kept, t1))),
                 get_stats(tail(kept, t2), Closes(records, tail(kept, t2))))

Columns(records) == UNION {DOMAIN records[i] : i \in DOMAIN records}

\* agent_utils.return_distribution_analysis
return_distribution_analysis(records, t1, t2) ==
    IF "datetime" \notin Columns(records) THEN Raised("KeyError")
    ELSE IF \E i \in DOMAIN records : to_datetime(records[i]["datetime"]).kind = "error"
         THEN Raised("ValueError")
    ELSE IF "close" \notin Columns(records) THEN Raised("KeyError")
    ELSE windows(records, return_rows(records), t1, t2)

\* autocorrelation_analysis: read-only over the rows it is given
autocorrelation_analysis(records) == [status |-> "success"]

----------------------------------------------------------------------------
(* Runs of the pure function return_distribution_analysis *)

\* longest price series offered
MaxPrices == 4
\* longest window asked for
MaxWindow == 3

\* the closes of a cleaned series, and a missing one as a raw series has them
CloseLevels == {Px(1), Px(2), Px(4), NaN}

\* price series on an even grid from tick 0, row i flat at the chosen level
PriceRows(closes) ==
    [i \in DOMAIN closes |->
        Row(Ts(2 * (i - 1)), closes[i], closes[i], closes[i], closes[i], Px(1))]
PriceSeries == {PriceRows(closes) : closes \in SeqsUpTo(CloseLevels, MaxPrices)}

StatsInit ==
    /\ DATA_CACHE = EmptyCache
    /\ ret = NoCall
    /\ df \in PriceSeries
    /\ freq = Auto
    /\ repair_ohlc = TRUE
    /\ result = NoResult
    /\ again = NoResult
    /\ time_1 \in 1..MaxWindow
    /\ time_2 \in 1..MaxWindow
    /\ stats = NoResult
    /\ quicksort = <<>>
    /\ coin = NoCoinCall
    /\ tool_confirmation = NoConfirmation
    /\ confirmation_request = NoRequest

\* stats = return_distribution_analysis({"data": df}, time_1, time_2)
Analyze ==
    /\ stats = NoResult
    /\ stats' = return_distribution_analysis(df, time_1, time_2)
    /\ UNCHANGED <<DATA_CACHE, ret, df, freq, repair_ohlc, result, again, time_1, time_2, quicksort,
                   coin, tool_confirmation, confirmation_request>>

StatsSpec == StatsInit /\ [][Analyze]_vars

----------------------------------------------------------------------------
(* The reference cache, ingestion and the two mediators *)

\* the identifiers uuid4 can mint in a run, and one that is never minted
MintableIds == {"id1", "id2"}
StaleId == "id0"
Ids == MintableIds \cup {StaleId}

\* DATA_CACHE.get(reference_id): <<>> stands for None
Get(cache, rid) == IF rid \in DOMAIN cache THEN cache[rid] ELSE <<>>
\* an assignment that rebinds the cache to a dict holding the one entry
Put_replacing(cache, rid, rows) == [k \in {rid} |-> rows]
\* DATA_CACHE[reference_id] = rows
Put(cache, rid, rows) == [k \in DOMAIN cache \cup {rid} |-> IF k = rid THEN rows ELSE cache[k]]

\* what a request to the upstream API answers: a failure, or the rows of the
\* JSON body (none for an empty body)
ApiFailures == {"HTTP 500", "non-JSON", "no timestamp column"}
ApiRows ==
    { <<>>,
      <<Flat(Str(0), 1), Flat(Str(2), 2), Flat(Str(4), 3)>>,
      <<Flat(Str(0), 1), Flat(Str(2), 2), Flat(Str(6), 3)>>,
      <<Flat(Str(2), 1), Flat(Str(0), 2), Flat(Str(2), 3)>>,
      <<Flat(Str(0), 1)>>,
      <<Flat(Str(0), 1), Flat(Junk, 2)>>,
      <<Flat(Str(0), 2), Row(Str(2), Px(1), Px(1), Px(0), Px(1), Px(1))>>,
      <<Row(Str(0), Px(2), Px(2), Px(2), Px(2), NaN),
        Row(Str(2), Px(3), Px(3), Px(3), Px(3), NaN)>> }

\* get_intraday_data's frame work on the fetched rows: to_datetime,
\* drop_duplicates(subset="datetime"), set_index().sort_index(), to_dict
intraday_records(rows) ==
    LET index == [i \in DOMAIN rows |-> to_datetime(rows[i]["datetime"]).t]
        keep == DOMAIN rows \ duplicated(index)
        kept == Pick(rows, keep)
        kidx == Pick(index, keep)
        p == argsort(kidx)
    IN [k \in DOMAIN p |-> [kept[p[k]] EXCEPT !["datetime"] = Ts(kidx[p[k]])]]

Failure(what) == [ok |-> FALSE, what |-> what, rows |-> <<>>]
Fetched(rows) == [ok |-> TRUE, what |-> "", rows |-> rows]
ApiAnswers == {Failure(w) : w \in ApiFailures} \cup {Fetched(r) : r \in ApiRows}
\* what the request for the second chunk answers; its first bar repeats the
\* bar that closes the first chunk of two of the series above
LaterAnswers ==
    { Failure("HTTP 500"), Fetched(<<>>),
      Fetched(<<Flat(Str(4), 5), Flat(Str(6), 4)>>) }

\* load_api_key: the key is in the environment, or ValueError
load_api_key(has_key) == IF has_key THEN [status |-> "success"] ELSE Raised("ValueError")

\* the identifiers uuid.uuid4() can return: none that is in use
uuid4(cache) == MintableIds \ DOMAIN cache

\* a date argument: the day it names, or text strptime rejects
Date(d) == [kind |-> "date", d |-> d]
BadDate == [kind |-> "junk", d |-> 0]
strptime(x) == IF x.kind = "junk" THEN [kind |-> "error", d |-> 0] ELSE x
ChunkDays == 120
DateRanges ==
    { <<BadDate, Date(ChunkDays)>>, <<Date(0), BadDate>>,
      <<Date(ChunkDays), Date(ChunkDays)>>, <<Date(ChunkDays), Date(0)>>,
      <<Date(0), Date(ChunkDays)>>, <<Date(0), Date(2 * ChunkDays)>>,
      <<Date(0), Date(ChunkDays + 1)>> }

\* the rolling windows of the while loop: how many requests it sends
RECURSIVE chunks(_, _)
chunks(start_dt, end_dt) ==
    IF start_dt < end_dt
    THEN 1 + chunks(Min({start_dt + ChunkDays, end_dt}), end_dt)
    ELSE 0

\* the loop of get_intraday_data over the answers to its n requests: the
\* first failure ends the call, an empty chunk is skipped, the others are
\* converted and collected
RECURSIVE fetch_chunks(_, _, _)
fetch_chunks(n, responses, all_chunks) ==
    IF n = 0 THEN Fetched(all_chunks)
    ELSE IF ~Head(responses).ok THEN Failure(Head(responses).what)
    ELSE IF \E i \in DOMAIN Head(responses).rows :
                to_datetime(Head(responses).rows[i]["datetime"]).kind = "error"
    THEN Failure("Unexpected error")
    ELSE fetch_chunks(n - 1, Tail(responses), all_chunks \o Head(responses).rows)

\* lines 315-340: no chunk collected is an error, else the combined frame is
\* stored under the new identifier
store_intraday(cache, rid, fetched) ==
    IF ~fetched.ok THEN [out |-> Error(fetched.what), cache |-> cache]
    ELSE IF fetched.rows = <<>>
    THEN [out |-> Error("No data returned for the requested period."), cache |-> cache]
    ELSE [out |-> [status |-> "success", reference_id |-> rid],
          cache |-> Put(cache, rid, intraday_records(fetched.rows))]

\* agent_utils.get_intraday_data: what it returns and the cache it leaves
intraday_data(cache, rid, has_key, start_date, end_date, responses) ==
    IF load_api_key(has_key).status = "raised"
    THEN [out |-> Error("API key loading failed"), cache |-> cache]
    ELSE IF strptime(start_date).kind = "error"
    THEN [out |-> Error("Invalid start_date"), cache |-> cache]
    ELSE IF strptime(end_date).kind = "error"
    THEN [out |-> Error("Invalid end_date"), cache |-> cache]
    ELSE IF strptime(start_date).d >= strptime(end_date).d
    THEN [out |-> Error("start_date must be earlier than end_date."), cache |-> cache]
    ELSE store_intraday(cache, rid,
            fetch_chunks(chunks(strptime(start_date).d, strptime(end_date).d),
                         responses, <<>>))

get_intraday_data(rid, has_key, dates, responses) ==
    /\ rid \in uuid4(DATA_CACHE)
    /\ DATA_CACHE' = intraday_data(DATA_CACHE, rid, has_key, dates[1], dates[2],
                                   responses).cache
    /\ ret' = Call("get_intraday_data", rid,
                   intraday_data(DATA_CACHE, rid, has_key, dates[1], dates[2],
                                 responses).out, DATA_CACHE)
    /\ UNCHANGED <<df, freq, repair_ohlc, result, again, time_1, time_2, stats, quicksort,
                   coin, tool_confirmation, confirmation_request>>

\* get_ohlcv with the rows stored before the body is looked at
ohlcv_storing_first(cache, rid, has_key, answer) ==
    IF load_api_key(has_key).status = "raised"
    THEN [out |-> load_api_key(has_key), cache |-> cache]
    ELSE IF ~answer.ok
    THEN [out |-> Error(answer.what), cache |-> Put(cache, rid, answer.rows)]
    ELSE IF answer.rows = <<>>
    THEN [out |-> Error("No data returned from API."),
          cache |-> Put(cache, rid, answer.rows)]
    ELSE [out |-> [status |-> "success", reference_id |-> rid],
          cache |-> Put(cache, rid, answer.rows)]

\* agent_utils.get_ohlcv: what it returns and the cache it leaves; the rows
\* are stored as fetched, 'date' renamed, and a missing key is not caught
ohlcv(cache, rid, has_key, answer) ==
    IF load_api_key(has_key).status = "raised"
    THEN [out |-> load_api_key(has_key), cache |-> cache]
    ELSE IF ~answer.ok THEN [out |-> Error(answer.what), cache |-> cache]
    ELSE IF answer.rows = <<>>
    THEN [out |-> Error("No data returned from API."), cache |-> cache]
    ELSE [out |-> [status |-> "success", reference_id |-> rid],
          cache |-> Put(cache, rid, answer.rows)]

get_ohlcv(rid, has_key, answer) ==
    /\ rid \in uuid4(DATA_CACHE)
    /\ DATA_CACHE' = ohlcv(DATA_CACHE, rid, has_key, answer).cache
    /\ ret' = Call("get_ohlcv", rid, ohlcv(DATA_CACHE, rid, has_key, answer).out,
                   DATA_CACHE)
    /\ UNCHANGED <<df, freq, repair_ohlc, result, again, time_1, time_2, stats, quicksort,
                   coin, tool_confirmation, confirmation_request>>

\* write_back with the cleaned rows stored under another key than the one read
write_back_other_key(cache, reference_id, res) ==
    IF res.status = "raised" THEN [out |-> res, cache |-> cache]
    ELSE IF res.status # "success" THEN [out |-> Raised("KeyError"), cache |-> cache]
    ELSE [out |-> [status |-> "success", reference_id |-> reference_id],
          cache |-> Put(cache, StaleId, res.clean_df)]

\* lines 34-36 of the mediator: result['clean_df'] is a KeyError unless the
\* cleaner returned success
write_back(cache, reference_id, res) ==
    IF res.status = "raised" THEN [out |-> res, cache |-> cache]
    ELSE IF res.status # "success" THEN [out |-> Raised("KeyError"), cache |-> cache]
    ELSE [out |-> [status |-> "success", reference_id |-> reference_id],
          cache |-> Put(cache, reference_id, res.clean_df)]

\* data_fetcher_agent._pass_data_to_cleaner: what it returns and the cache
\* it leaves
pass_data_to_cleaner(cache, reference_id, p) ==
    IF Get(cache, reference_id) = <<>>
    THEN [out |-> [status |-> "error", msg |-> "ID not found"], cache |-> cache]
    ELSE write_back(cache, reference_id,
                    clean_dataframe(Get(cache, reference_id), Auto, TRUE, p))

_pass_data_to_cleaner(reference_id) ==
    /\ \E p \in SortOutcomes(Get(DATA_CACHE, reference_id)) :
          /\ DATA_CACHE' = pass_data_to_cleaner(DATA_CACHE, reference_id, p).cache
          /\ ret' = Call("_pass_data_to_cleaner", reference_id,
                         pass_data_to_cleaner(DATA_CACHE, reference_id, p).out, DATA_CACHE)
          /\ quicksort' = p
    /\ UNCHANGED <<df, freq, repair_ohlc, result, again, time_1, time_2, stats,
                   coin, tool_confirmation, confirmation_request>>

\* lines 38-45 of the mediator: both analyses, then the combined dict
combine(cache, dist_stats, autocorr_stats) ==
    IF dist_stats.status = "raised" THEN [out |-> dist_stats, cache |-> cache]
    ELSE [out |-> [status |-> "success", distribution |-> dist_stats,
                   autocorrelation |-> autocorr_stats],
          cache |-> cache]

\* analyze_by_id without the "if not data" test
analyze_by_id_unchecked(cache, reference_id) ==
    combine(cache,
            return_distribution_analysis(Get(cache, reference_id),
                                         DefaultTime1, DefaultTime2),
            autocorrelation_analysis(Get(cache, reference_id)))

\* analyze_by_id with the frame work done on the cached rows themselves: the
\* timestamps of the entry are left converted
analyze_by_id_converting(cache, reference_id) ==
    IF Get(cache, reference_id) = <<>>
    THEN [out |-> [status |-> "error", msg |-> "ID not found"], cache |-> cache]
    ELSE [out |-> combine(cache,
                     return_distribution_analysis(Get(cache, reference_id),
                                                  DefaultTime1, DefaultTime2),
                     autocorrelation_analysis(Get(cache, reference_id))).out,
          cache |-> Put(cache, reference_id,
                        [i \in DOMAIN cache[reference_id] |->
                            [c \in DOMAIN cache[reference_id][i] |->
                                IF c = "datetime"
                                THEN to_datetime(cache[reference_id][i][c])
                                ELSE cache[reference_id][i][c]]])]

\* research_agent._analyze_by_id: what it returns and the cache it leaves
analyze_by_id(cache, reference_id) ==
    IF Get(cache, reference_id) = <<>>
    THEN [out |-> [status |-> "error", msg |-> "ID not found"], cache |-> cache]
    ELSE combine(cache,
                 return_distribution_analysis(Get(cache, reference_id),
                                              DefaultTime1, DefaultTime2),
                 autocorrelation_analysis(Get(cache, reference_id)))

_analyze_by_id(reference_id) ==
    /\ DATA_CACHE' = analyze_by_id(DATA_CACHE, reference_id).cache
    /\ ret' = Call("_analyze_by_id", reference_id,
                   analyze_by_id(DATA_CACHE, reference_id).out, DATA_CACHE)
    /\ UNCHANGED <<df, freq, repair_ohlc, result, again, time_1, time_2, stats, quicksort,
                   coin, tool_confirmation, confirmation_request>>

Init ==
    /\ DATA_CACHE = EmptyCache
    /\ ret = NoCall
    /\ df = <<>>
    /\ freq = Auto
    /\ repair_ohlc = TRUE
    /\ result = NoResult
    /\ again = NoResult
    /\ time_1 = DefaultTime1
    /\ time_2 = DefaultTime2
    /\ stats = NoResult
    /\ quicksort = <<>>
    /\ coin = NoCoinCall
    /\ tool_confirmation = NoConfirmation
    /\ confirmation_request = NoRequest

Next ==
    \/ \E rid \in Ids, has_key \in BOOLEAN, dates \in DateRanges,
          first \in ApiAnswers, later \in LaterAnswers :
            get_intraday_data(rid, has_key, dates, <<first, later>>)
    \/ \E rid \in Ids, has_key \in BOOLEAN, answer \in ApiAnswers :
            get_ohlcv(rid, has_key, answer)
    \/ \E rid \in Ids : _pass_data_to_cleaner(rid)
    \/ \E rid \in Ids : _analyze_by_id(rid)

Spec == Init /\ [][Next]_vars

----------------------------------------------------------------------------
(* The coin verification tool and its confirmation round trip *)

\* the thresholds of the three rules, and the days of a year at line 102
MinMarketCap == 1000000000
MinVolume24h == 1000000
MinYears == 5
DaysPerYear == 365

\* one item of the listings answer; days is (utcnow() - date_added).days
Item(symbol, market_cap, volume_24h, days) ==
    [symbol |-> symbol, market_cap |-> market_cap, volume_24h |-> volume_24h,
     days |-> days]

\* quotes on either side of each threshold
Quotes ==
    { Item("BTC", c, v, d) : c \in {MinMarketCap - 1, MinMarketCap},
                             v \in {MinVolume24h - 1, MinVolume24h},
                             d \in {MinYears * DaysPerYear - 1, MinYears * DaysPerYear} }
\* data['data']: no item, one, or two, where a symbol may be listed twice
Listings ==
    {<<>>} \cup {<<q>> : q \in Quotes}
           \cup {<<Item("ETH", MinMarketCap, MinVolume24h, MinYears * DaysPerYear), q>> :
                    q \in Quotes}
           \cup {<<Item("BTC", MinMarketCap, MinVolume24h - 1, MinYears * DaysPerYear),
                   Item("BTC", MinMarketCap, MinVolume24h, MinYears * DaysPerYear)>>,
                 <<Item("BTC", MinMarketCap, MinVolume24h, MinYears * DaysPerYear),
                   Item("BTC", MinMarketCap - 1, MinVolume24h, MinYears * DaysPerYear)>>}
\* what the listings request ends in: the connection error that is printed and
\* leaves data unbound, a body json.loads rejects, a body without 'data', or
\* the listings
ListingFailures == {"UnboundLocalError", "JSONDecodeError", "KeyError"}
ListingAnswers == {Failure(w) : w \in ListingFailures} \cup {Fetched(l) : l \in Listings}
Symbols == {"BTC", "btc", "ETH"}

\* coin_symbol.upper()
upper(coin_symbol) == IF coin_symbol = "btc" THEN "BTC" ELSE coin_symbol

\* df[df.symbol == coin_symbol].iloc[0]
first_listed(listing, coin_symbol) ==
    listing[Min({i \in DOMAIN listing : listing[i].symbol = coin_symbol})]

\* lines 115-132: the reasons the three rules append, in order
rule_reasons(item) ==
    (IF item.market_cap < MinMarketCap THEN <<"Market cap < 1B">> ELSE <<>>)
    \o (IF item.volume_24h < MinVolume24h THEN <<"24h volume < 1M">> ELSE <<>>)
    \o (IF item.days < MinYears * DaysPerYear THEN <<"Coin younger than 5 years">> ELSE <<>>)

Verdict(symbol, approved, reasons) ==
    [symbol |-> symbol, approved |-> approved, reasons |-> reasons]
Request(coin_symbol, reasons) ==
    [pending |-> TRUE, symbol |-> coin_symbol, reasons |-> reasons]

\* lines 134-167: the rules' result, then the confirmation
decide(coin_symbol, reasons, confirmation) ==
    IF Len(reasons) = 0
    THEN [out |-> Verdict(upper(coin_symbol), TRUE,
                          <<"The Coin respect the 3 rules and it is approved">>),
          request |-> NoRequest]
    ELSE IF ~confirmation.present
    THEN [out |-> Verdict(upper(coin_symbol), FALSE,
                          <<"Reasons for request approval">> \o reasons),
          request |-> Request(coin_symbol, reasons)]
    ELSE IF confirmation.confirmed
    THEN [out |-> Verdict(upper(coin_symbol), TRUE, <<"User Approved">>),
          request |-> NoRequest]
    ELSE [out |-> Verdict(upper(coin_symbol), FALSE, <<"User Rejected">>),
          request |-> NoRequest]

\* agent_utils.coins_info: what it returns and the confirmation it requests
coins(coin_symbol, has_key, answer, confirmation) ==
    IF load_api_key(has_key).status = "raised"
    THEN [out |-> load_api_key(has_key), request |-> NoRequest]
    ELSE IF ~answer.ok THEN [out |-> Raised(answer.what), request |-> NoRequest]
    ELSE IF \A i \in DOMAIN answer.rows : answer.rows[i].symbol # coin_symbol
    THEN [out |-> Verdict(upper(coin_symbol), FALSE, <<"The Coin is not present">>),
          request |-> NoRequest]
    ELSE decide(coin_symbol, rule_reasons(first_listed(answer.rows, coin_symbol)),
                confirmation)

\* a call of the tool: a new one, or the resumption of the call that asked,
\* with the same argument and the user's answer in tool_context
coins_info(coin_symbol, has_key, answer) ==
    /\ tool_confirmation.present => coin_symbol = confirmation_request.symbol
    /\ coin' = [op |-> "coins_info", symbol |-> coin_symbol,
                listing |-> answer.rows, found |-> tool_confirmation,
                out |-> coins(coin_symbol, has_key, answer, tool_confirmation).out,
                requested |-> coins(coin_symbol, has_key, answer,
                                    tool_confirmation).request.pending]
    /\ confirmation_request' = coins(coin_symbol, has_key, answer,
                                     tool_confirmation).request
    /\ tool_confirmation' = NoConfirmation
    /\ UNCHANGED <<DATA_CACHE, ret, df, freq, repair_ohlc, result, again, time_1,
                   time_2, stats, quicksort>>

\* the user confirms or denies the pending request
tool_confirmation_received(confirmed) ==
    /\ confirmation_request.pending
    /\ ~tool_confirmation.present
    /\ tool_confirmation' = Confirmation(confirmed)
    /\ UNCHANGED <<DATA_CACHE, ret, df, freq, repair_ohlc, result, again, time_1,
                   time_2, stats, quicksort, coin, confirmation_request>>

CoinInit ==
    /\ DATA_CACHE = EmptyCache
    /\ ret = NoCall
    /\ df = <<>>
    /\ freq = Auto
    /\ repair_ohlc = TRUE
    /\ result = NoResult
    /\ again = NoResult
    /\ time_1 = DefaultTime1
    /\ time_2 = DefaultTime2
    /\ stats = NoResult
    /\ quicksort = <<>>
    /\ coin = NoCoinCall
    /\ tool_confirmation = NoConfirmation
    /\ confirmation_request = NoRequest

CoinNext ==
    \/ \E coin_symbol \in Symbols, has_key \in BOOLEAN, answer \in ListingAnswers :
            coins_info(coin_symbol, has_key, answer)
    \/ \E confirmed \in BOOLEAN : tool_confirmation_received(confirmed)

CoinSpec == CoinInit /\ [][CoinNext]_vars

----------------------------------------------------------------------------
(* Properties of the cache and the mediators, checked under Spec *)

Cleaned == ret.op = "_pass_data_to_cleaner"
Analyzed == ret.op = "_analyze_by_id"
\* what the cleaning engine yields for the dataset the last call found under
\* its identifier
EngineOnFound == clean_dataframe(ret.before[ret.id], Auto, TRUE, quicksort)

\* C1: a successful clean-by-id of an identifier X present in the cache
\* returns X itself, leaves X mapped to the cleaned output of the dataset X
\* mapped to before the call, and leaves the set of cache keys unchanged.
C1_CleanKeepsIdentifier ==
    (Cleaned /\ ret.out.status = "success") =>
        /\ ret.id \in DOMAIN ret.before
        /\ ret.out.reference_id = ret.id
        /\ DOMAIN DATA_CACHE = DOMAIN ret.before
        /\ EngineOnFound.status = "success"
        /\ DATA_CACHE[ret.id] = EngineOnFound.clean_df

\* a clean-by-id succeeded beside another entry and replaced the content
C1_Witness ==
    /\ Cleaned /\ ret.out.status = "success"
    /\ Cardinality(DOMAIN DATA_CACHE) = 2
    /\ DATA_CACHE[ret.id] # ret.before[ret.id]

\* C2 (as claimed): when the cleaning engine yields a terminal failure for the
\* dataset stored under X, clean-by-id(X) returns an error payload and the
\* cache entry at X still holds the dataset it held before the call.
C2_TerminalFailureIsErrorPayload ==
    (Cleaned /\ ret.id \in DOMAIN ret.before /\ EngineOnFound.status = "error") =>
        /\ ret.out.status = "error"
        /\ DATA_CACHE[ret.id] = ret.before[ret.id]

\* C3: for an identifier that is not in the cache both mediators return an
\* error payload, nothing is raised, and the cache is left as it was.
C3_UnknownIdentifierIsError ==
    ((Cleaned \/ Analyzed) /\ ret.id \notin DOMAIN ret.before) =>
        /\ ret.out.status = "error"
        /\ DATA_CACHE = ret.before

\* analyze-by-id was asked for an identifier missing from a non-empty cache
C3_Witness ==
    /\ Analyzed
    /\ ret.id \notin DOMAIN ret.before
    /\ DOMAIN ret.before # {}
    /\ ret.out.status = "error"

\* C14: analyze-by-id never mutates the cache: whatever the identifier and
\* the outcome, the keys and the dataset under every key are the same after
\* _analyze_by_id as before it.
C14_AnalyzeLeavesCache ==
    Analyzed => DATA_CACHE = ret.before

\* analyze-by-id succeeded on an entry still holding date strings, beside
\* another entry
C14_Witness ==
    /\ Analyzed
    /\ ret.out.status = "success"
    /\ Cardinality(DOMAIN DATA_CACHE) = 2
    /\ \E i \in DOMAIN DATA_CACHE[ret.id] : DATA_CACHE[ret.id][i]["datetime"].kind = "str"

\* C16: over any sequence of ingestion, clean-by-id and analyze-by-id steps
\* no step removes a key of the cache.
C16_NoKeyRemoved ==
    [][DOMAIN DATA_CACHE \subseteq DOMAIN DATA_CACHE']_vars

\* both identifiers are resident and the entry read last has since been
\* cleaned or analysed
C16_Witness ==
    /\ Cardinality(DOMAIN DATA_CACHE) = 2
    /\ Cleaned \/ Analyzed
    /\ ret.id \in DOMAIN ret.before
    /\ DOMAIN ret.before = DOMAIN DATA_CACHE

Ingested == ret.op \in {"get_intraday_data", "get_ohlcv"}

C22_CleanedDatasetIsConsumable ==
    (Cleaned /\ ret.out.status = "success") =>
        /\ \A i \in DOMAIN DATA_CACHE[ret.id] : "datetime" \in DOMAIN DATA_CACHE[ret.id][i]
        /\ Validate(DATA_CACHE[ret.id]) # Stopped(Raised("KeyError"))
        /\ analyze_by_id(DATA_CACHE, ret.id).out # Raised("KeyError")

----------------------------------------------------------------------------
(* Properties of clean_dataframe, checked under CleanSpec *)

\* the instant of a row dict, whichever key reset_index gave its timestamp
Stamp(row) == IF "datetime" \in DOMAIN row THEN row["datetime"].t ELSE row["index"].t
Stamps(rows) == [i \in DOMAIN rows |-> Stamp(rows[i])]
\* the numeric cells of a row dict
CellsOf(row) == [c \in DOMAIN row \ {"datetime", "index"} |-> row[c]]
\* rows compared as instants and cells
SameRows(a, b) ==
    /\ Len(a) = Len(b)
    /\ \A i \in DOMAIN a : Stamp(a[i]) = Stamp(b[i]) /\ CellsOf(a[i]) = CellsOf(b[i])

Succeeded == result.status = "success"
\* the frequency the run worked at: the one given, or the one it reported
FreqInForce ==
    IF freq = Auto
    THEN freqstr((CHOOSE e \in Range(result.report) :
                     e.tag = "Auto-detected data frequency.").n)
    ELSE freq

\* C4 (as claimed): cleaning the rows a successful run returned, with the same
\* configuration, succeeds, returns those rows and an empty report.
C4_Idempotent ==
    (again # NoResult) =>
        /\ again.status = "success"
        /\ again.clean_df = result.clean_df
        /\ again.report = <<>>

\* C5 (as claimed): the output timestamps of a successful run are exactly the
\* evenly spaced grid from the earliest to the latest input timestamp at the
\* inferred or given frequency.
C5_CompleteGrid ==
    Succeeded =>
        Stamps(result.clean_df) =
            date_range(Min(Range(Stamps(df))), Max(Range(Stamps(df))), FreqInForce)

\* low <= min(open, close) <= max(open, close) <= high on one output row
OhlcOrdered(row) ==
    /\ Le(row["low"], fmin(row["open"], row["close"]))
    /\ Le(fmax(row["open"], row["close"]), row["high"])

\* C6 (as claimed, for the rows that carry four OHLC values): with repair_ohlc
\* enabled every output row has low <= min(open, close) <= max(open, close)
\* <= high, scrubbed and then interpolated rows included.
C6_OhlcInvariant ==
    (Succeeded /\ repair_ohlc) =>
        \A i \in DOMAIN result.clean_df :
            ~ohlc_has_nan(result.clean_df[i]) => OhlcOrdered(result.clean_df[i])

\* C7: the output timestamps of a successful run are strictly increasing,
\* hence pairwise distinct, whatever the order and multiplicity in the input.
C7_StrictlyIncreasing ==
    Succeeded =>
        \A i \in 1..(Len(result.clean_df) - 1) :
            Stamp(result.clean_df[i]) < Stamp(result.clean_df[i + 1])

\* a run succeeded on an input that was out of order and repeated a timestamp
C7_Witness ==
    /\ Succeeded
    /\ ~is_monotonic_increasing(Stamps(df))
    /\ duplicated(Stamps(df)) # {}
    /\ Len(result.clean_df) >= 2

\* C8 (as claimed): after a successful run no cell of the output is missing
\* or infinite (what cannot be filled is a terminal error instead).
C8_NothingMissing ==
    Succeeded =>
        \A i \in DOMAIN result.clean_df : \A c \in DOMAIN CellsOf(result.clean_df[i]) :
            IsNum(result.clean_df[i][c])

\* an input that needs no cleaning at the frequency of the run
AlreadyClean ==
    /\ Len(df) >= 1
    /\ \A i \in DOMAIN df :
          /\ "datetime" \in DOMAIN df[i]
          /\ df[i]["datetime"].kind \in {"str", "ts"}
          /\ \A c \in DOMAIN CellsOf(df[i]) : IsNum(df[i][c])
          /\ \A c \in OhlcNames : df[i][c].v > 0
          /\ "volume" \in DOMAIN df[i] => df[i]["volume"].v >= 0
          /\ OhlcOrdered(df[i])
    /\ \A i \in 1..(Len(df) - 1) :
          /\ Stamp(df[i]) < Stamp(df[i + 1])
          /\ Stamp(df[i + 1]) - Stamp(df[i]) = Stamp(df[2]) - Stamp(df[1])
          /\ freq # Auto => Stamp(df[i + 1]) - Stamp(df[i]) = period(freq)

\* C9 (as claimed): on an already clean input clean_dataframe returns the
\* input rows and a report with zero entries.
C9_CleanInputUntouched ==
    (AlreadyClean /\ result # NoResult) =>
        /\ Succeeded
        /\ SameRows(result.clean_df, df)
        /\ result.report = <<>>

\* the value x clamped into [lo, hi]
Clamp(x, lo, hi) == fmax(lo, fmin(x, hi))
\* the number of report lines "Repaired inconsistent OHLC at t"
RepairLines(res, t) ==
    Cardinality({k \in DOMAIN res.report :
                    res.report[k] = Entry("Repaired inconsistent OHLC.", t, "")})
\* the rule of C10 for the row that enters the repair loop as `row` at index
\* label t and leaves clean_dataframe as `out`
RepairRule(row, t, out) ==
    /\ out["low"] = fmin(row["low"], row["high"])
    /\ out["high"] = fmax(row["low"], row["high"])
    /\ out["open"] = Clamp(row["open"], out["low"], out["high"])
    /\ out["close"] = Clamp(row["close"], out["low"], out["high"])
    /\ RepairLines(result, t) =
          IF \E c \in OhlcNames : out[c] # row[c] THEN 1 ELSE 0

\* C10: with repair enabled, a row that reaches the repair step with all four
\* OHLC cells present leaves with low' = min(low, high), high' = max(low, high)
\* and open, close clamped into [low', high'], and the report holds exactly one
\* repair line for its timestamp iff one of the four values changed.
C10_RepairRule ==
    (Succeeded /\ repair_ohlc) =>
        LET entering == before_repair(df, freq, quicksort)
        IN \A i \in DOMAIN entering.rows :
               ~ohlc_has_nan(entering.rows[i]) =>
                   RepairRule(entering.rows[i], entering.index[i], result.clean_df[i])

\* Scenario A went through: low=10, high=5, open=12, close=3 came out as
\* low=5, high=10, open=10, close=5 with one repair line
C10_Witness ==
    /\ Succeeded /\ repair_ohlc
    /\ \E i \in DOMAIN df :
          /\ CellsOf(df[i]) = CellsOf(Row(Junk, Px(12), Px(5), Px(10), Px(3), Px(1)))
          /\ CellsOf(result.clean_df[i]) =
                CellsOf(Row(Junk, Px(10), Px(10), Px(5), Px(5), Px(1)))
          /\ RepairLines(result, Stamp(result.clean_df[i])) = 1

\* the rows carry parsable timestamps and consistent, positive, finite cells
CleanValues(rows) ==
    \A i \in DOMAIN rows :
        /\ "datetime" \in DOMAIN rows[i]
        /\ rows[i]["datetime"].kind \in {"str", "ts"}
        /\ \A c \in DOMAIN CellsOf(rows[i]) : IsNum(rows[i][c])
        /\ \A c \in OhlcNames : rows[i][c].v > 0
        /\ "volume" \in DOMAIN rows[i] => rows[i]["volume"].v >= 0
        /\ OhlcOrdered(rows[i])

\* the spacing of the input series: the frequency given, or else its
\* smallest step
GapPeriod ==
    IF freq = Auto
    THEN Min({Stamp(df[i + 1]) - Stamp(df[i]) : i \in 1..(Len(df) - 1)})
    ELSE period(freq)
\* the grid the input series lies on
GapGrid == date_range(Stamp(df[1]), Stamp(df[Len(df)]), freqstr(GapPeriod))
\* an evenly spaced, ascending, clean series from which exactly one grid
\* timestamp is absent
OneGap ==
    /\ Len(df) >= 2
    /\ CleanValues(df)
    /\ \A i \in 1..(Len(df) - 1) : Stamp(df[i]) < Stamp(df[i + 1])
    /\ Range(Stamps(df)) \subseteq Range(GapGrid)
    /\ Cardinality(Range(GapGrid) \ Range(Stamps(df))) = 1
TheGap == CHOOSE g \in Range(GapGrid) : g \notin Range(Stamps(df))
\* the input row at instant t
InputAt(t) == df[CHOOSE i \in DOMAIN df : Stamp(df[i]) = t]

\* C11 (as claimed): when exactly one grid timestamp is absent from an
\* otherwise evenly spaced series, the run succeeds, the output has a row at
\* that timestamp whose OHLC values lie midway on the line between the two
\* neighbouring rows, every input row is in the output with its values, and
\* the report records one missing timestamp.
C11_ScenarioB ==
    (OneGap /\ result # NoResult) =>
        /\ Succeeded
        /\ \E j \in DOMAIN result.clean_df :
              /\ Stamp(result.clean_df[j]) = TheGap
              /\ \A c \in OhlcNames :
                    /\ IsNum(result.clean_df[j][c])
                    /\ 2 * result.clean_df[j][c].v =
                          InputAt(TheGap - GapPeriod)[c].v + InputAt(TheGap + GapPeriod)[c].v
        /\ \A i \in DOMAIN df : \E j \in DOMAIN result.clean_df :
              /\ Stamp(result.clean_df[j]) = Stamp(df[i])
              /\ CellsOf(result.clean_df[j]) = CellsOf(df[i])
        /\ Entry("Found missing timestamps.", 1, "") \in Range(result.report)

\* C13 (as claimed): for an input whose row list is empty or whose rows lack
\* the 'datetime' field clean_dataframe returns status error; it neither
\* raises nor succeeds.
C13_SchemaRejected ==
    (result # NoResult /\ \A i \in DOMAIN df : "datetime" \notin DOMAIN df[i]) =>
        result.status = "error"

\* C15 (as claimed): in every successfully cleaned dataset every open, high,
\* low and close value is strictly positive and every volume value is
\* non-negative, filled values included.
C15_PositivePrices ==
    Succeeded =>
        \A i \in DOMAIN result.clean_df :
            /\ \A c \in OhlcNames \cap DOMAIN result.clean_df[i] :
                  IsNum(result.clean_df[i][c]) /\ result.clean_df[i][c].v > 0
            /\ "volume" \in DOMAIN result.clean_df[i] =>
                  IsNum(result.clean_df[i]["volume"]) /\ result.clean_df[i]["volume"].v >= 0

\* the frame of the run on df after each step, in the order of the code
Validated == Validate(df)
Converted == EnsureDatetimeIndex(Validated)
Sorted == SortIndex(Converted, quicksort)
Deduplicated == RemoveDuplicates(Sorted)
Inferred == InferFrequency(Deduplicated, freq)
Regridded == ReindexMissing(Inferred)
Finite == ReplaceInfinite(Regridded)
Scrubbed == ScrubNonPositive(Finite)
Repaired == RepairOhlc(Scrubbed, repair_ohlc)
VolumeCleaned == CleanVolume(Repaired)
Interpolated == Interpolate(VolumeCleaned)

\* a step that ran from frame a to frame b added to the report iff it changed
\* the index or a cell
ReportsIffChanged(a, b) ==
    (Running(a) /\ Running(b)) =>
        ((b.report # a.report) <=> (<<b.index, b.rows>> # <<a.index, a.rows>>))

\* C17 (as claimed): each cleaning step appends to the report if and only if
\* it changed the data.
C17_ReportIffChanged ==
    (result # NoResult) =>
        /\ (Running(Validated) /\ Running(Converted)) =>
              ((Converted.report # Validated.report)
                  <=> \E i \in DOMAIN Validated.index : Validated.index[i].kind # "ts")
        /\ ReportsIffChanged(Converted, Sorted)
        /\ ReportsIffChanged(Sorted, Deduplicated)
        /\ ReportsIffChanged(Deduplicated, Inferred.st)
        /\ ReportsIffChanged(Inferred.st, Regridded)
        /\ ReportsIffChanged(Regridded, Finite)
        /\ ReportsIffChanged(Finite, Scrubbed)
        /\ ReportsIffChanged(Scrubbed, Repaired)
        /\ ReportsIffChanged(Repaired, VolumeCleaned)
        /\ ReportsIffChanged(VolumeCleaned, Interpolated)

\* the positions of the input rows stamped t
RowsAt(t) == {i \in DOMAIN df : Stamp(df[i]) = t}

\* C18 (as claimed): for every timestamp the input repeats, the cleaned row
\* at that timestamp carries the values of the row that came first in input
\* order among those sharing it, sorted input or not, and the report states
\* the number of rows dropped.
C18_KeepsFirstOccurrence ==
    (Succeeded /\ CleanValues(df)) =>
        /\ \A j \in DOMAIN result.clean_df :
              Cardinality(RowsAt(Stamp(result.clean_df[j]))) > 1 =>
                  CellsOf(result.clean_df[j]) =
                      CellsOf(df[Min(RowsAt(Stamp(result.clean_df[j])))])
        /\ duplicated(Stamps(df)) # {} =>
              Entry("Removed duplicate timestamps.", Cardinality(duplicated(Stamps(df))), "")
                  \in Range(result.report)

\* some OHLC cell of the row is missing
LacksOhlc(row) == \E c \in OhlcNames : isna(row[c])

\* C19: the OHLC repair step leaves every row with a missing OHLC field as it
\* found it, adds no report line for it, and never writes a value into a cell
\* that was missing before the step.
C19_RepairSkipsMissing ==
    (result # NoResult /\ repair_ohlc) =>
        LET found == Scrubbed
            left == RepairOhlc(found, repair_ohlc)
        IN Running(found) => \A i \in DOMAIN found.rows :
              /\ LacksOhlc(found.rows[i]) =>
                    /\ left.rows[i] = found.rows[i]
                    /\ Entry("Repaired inconsistent OHLC.", found.index[i], "")
                          \notin Range(left.report)
              /\ \A c \in DOMAIN found.rows[i] :
                    isna(found.rows[i][c]) => isna(left.rows[i][c])

\* a run with repair enabled met a row whose open is missing and whose low is
\* above its high, beside a row it did repair
C19_Witness ==
    /\ Succeeded /\ repair_ohlc
    /\ \E i \in DOMAIN Scrubbed.rows :
          isna(Scrubbed.rows[i]["open"]) /\ Gt(Scrubbed.rows[i]["low"], Scrubbed.rows[i]["high"])
    /\ Repaired.report # Scrubbed.report

----------------------------------------------------------------------------
(* Properties of return_distribution_analysis, checked under StatsSpec *)

Answered == stats # NoResult
\* the number of return observations the series yields
Available == Cardinality(return_rows(df))
\* a success whose window statistics rest on fewer return observations than
\* the window asked for; the result dict has no field that says so
SilentlyTruncated ==
    /\ stats.status = "success"
    /\ \/ Cardinality(stats.short_term_stats.returns) < time_1
       \/ Cardinality(stats.long_term_stats.returns) < time_2

\* C12 (as claimed): when time_1 or time_2 exceeds the number of available
\* return observations, return_distribution_analysis does not raise and does
\* not return a success computed on fewer observations than requested.
C12_WindowBoundarySignalled ==
    (Answered /\ (time_1 > Available \/ time_2 > Available)) =>
        /\ stats.status # "raised"
        /\ ~SilentlyTruncated

\* the rows whose closes generate the return observations W: each row of W
\* and the row before it
Generating(W) == W \cup {i - 1 : i \in W}
\* the trailing n return observations of the series
Trailing(n) == tail(return_rows(df), n)

\* C20 (as claimed): for a window length N the return statistics are computed
\* over the trailing N return observations and the maximum drawdown over the
\* trailing N+1 prices that generate them, for the short and the long window
\* alike.
C20_WindowOfNPlusOnePrices ==
    (Answered /\ stats.status = "success") =>
        /\ stats.short_term_stats.returns = Trailing(time_1)
        /\ stats.short_term_stats.max_drawdown =
              calculate_max_drawdown(Closes(df, Generating(Trailing(time_1))))
        /\ stats.long_term_stats.returns = Trailing(time_2)
        /\ stats.long_term_stats.max_drawdown =
              calculate_max_drawdown(Closes(df, Generating(Trailing(time_2))))

----------------------------------------------------------------------------
(* Properties of coins_info, checked under CoinSpec *)

\* the last call of the tool returned a verdict
Verified == coin.op = "coins_info" /\ "approved" \in DOMAIN coin.out
Listed == \E i \in DOMAIN coin.listing : coin.listing[i].symbol = coin.symbol
\* the listed coin the verdict is about
TheCoin == coin.listing[Min({i \in DOMAIN coin.listing : coin.listing[i].symbol = coin.symbol})]
NoRuleFails ==
    /\ TheCoin.market_cap >= MinMarketCap
    /\ TheCoin.volume_24h >= MinVolume24h
    /\ TheCoin.days >= MinYears * DaysPerYear

\* C23 (as claimed): coins_info returns approved=True only for a listed coin
\* that fails none of the three rules or has a confirmed confirmation; an
\* unlisted coin gets approved=False and no request; a confirmation is
\* requested only when a rule fails and none is present, with approved=False;
\* a resumption with a denied confirmation returns approved=False.
C23_ApprovalNeedsRulesOrConsent ==
    Verified =>
        /\ coin.out.approved =>
              Listed /\ (NoRuleFails \/ coin.found = Confirmation(TRUE))
        /\ ~Listed => ~coin.out.approved /\ ~coin.requested
        /\ coin.requested =>
              Listed /\ ~NoRuleFails /\ ~coin.found.present /\ ~coin.out.approved
        /\ coin.found = Confirmation(FALSE) => ~coin.out.approved

====
